---- MODULE Spec2Model ----
(***************************************************************************)
(* The two fingerprint-gated exporters of tools/: dump_journal.py (one     *)
(* parquet file per day, gated by the journal cursor) and dump_cargo.py    *)
(* (one snapshot file, gated by the md5 of Cargo.lock).  Each script is a  *)
(* one-shot batch run; the model follows one run at a time through its     *)
(* externally visible steps (subprocess calls and file writes) and lets    *)
(* the environment (the journal, the clock, the lock file, the user        *)
(* deleting outputs, a kill signal) act between those steps.               *)
(*                                                                         *)
(* The two scripts share no file, so a behaviour concerns one of them:     *)
(* mode is chosen in Init and only that exporter's actions are enabled.    *)
(* Invocations of a script are serialized (a scheduler starts the next one *)
(* after the last has ended) except in mode "overlap", where two           *)
(* invocations of dump_journal.py may run at the same time.                *)
(***************************************************************************)
EXTENDS Naturals, Integers, Sequences, FiniteSets, TLC

VARIABLES mode, source, nextId, avail, clock, files, jstamp, jr,
          lock, cavail, snapshot, cstamp, cr, hist, faults

vars == <<mode, source, nextId, avail, clock, files, jstamp, jr,
          lock, cavail, snapshot, cstamp, cr, hist, faults>>

jvars == <<source, nextId, avail, clock, files, jstamp, jr>>
cvars == <<lock, cavail, snapshot, cstamp, cr>>

\* ---------------------------------------------------------------- bounds
MaxEntries == 3
MaxDay == 2
MaxLock == 2
\* environment faults per behaviour: outages of the upstream command,
\* malformed entries, rotations of the journal, deletions by the user
MaxFaults == 1

\* ------------------------------------------------------------ data model
EpochDay == 0
Days == 1..MaxDay
Dates == {EpochDay} \cup Days
Shapes == {"ok", "bad", "nots"}
Avail == {"up", "down", "missing"}
Runs == {1, 2}
JournalModes == {"journal", "overlap"}
Terminal == {"noop", "done", "crashed", "killed"}

\* a character code that str.strip() removes; cursor and digest characters
\* are all different from it
WS == 0

Range(s) == {s[i] : i \in 1..Len(s)}

NoFile == [exists |-> FALSE, rows |-> <<>>]
FileOf(rows) == [exists |-> TRUE, rows |-> rows]
NoStamp == [exists |-> FALSE, text |-> <<>>]
StampOf(text) == [exists |-> TRUE, text |-> text]

RECURSIVE LStrip(_)
LStrip(s) == IF s # <<>> /\ Head(s) = WS THEN LStrip(Tail(s)) ELSE s

RECURSIVE RStrip(_)
RStrip(s) ==
  IF s # <<>> /\ s[Len(s)] = WS THEN RStrip(SubSeq(s, 1, Len(s) - 1)) ELSE s

Strip(s) == RStrip(LStrip(s))

\* STAMP.read_text().strip() if STAMP.exists() else ""
ReadStamp(st) == IF st.exists THEN Strip(st.text) ELSE <<>>

\* a fingerprint that entries of one day share
CursorOfCoarse(e) == <<e.day>>

\* the "__CURSOR" of an entry, as text
CursorOf(e) == <<e.id>>

NoCur == [some |-> FALSE, text |-> <<>>]
CurOf(text) == [some |-> TRUE, text |-> text]

\* ------------------------------------------------- journal: pure helpers
NoRow == [id |-> 0, date |-> EpochDay]

\* the timestamp looked up under a key no entry has
DecodeLineNoDate(e) ==
  IF e.shape = "bad" THEN [skip |-> TRUE, row |-> NoRow]
  ELSE [skip |-> FALSE, row |-> [id |-> e.id, date |-> EpochDay]]

\* body of the try block: json.loads raises on an undecodable line, which
\* the bare except swallows; a missing "__REALTIME_TIMESTAMP" defaults to 0,
\* i.e. the epoch date.  The row stands for (date, time, boot, unit, msg).
DecodeLine(e) ==
  IF e.shape = "bad" THEN [skip |-> TRUE, row |-> NoRow]
  ELSE [skip |-> FALSE,
        row |-> [id |-> e.id,
                 date |-> IF e.shape = "nots" THEN EpochDay ELSE e.day]]

NoDays == [order |-> <<>>, rows |-> [d \in Dates |-> <<>>]]

\* the try around the whole loop: the first undecodable line ends the
\* grouping
RECURSIVE GroupFromAbort(_, _, _)
GroupFromAbort(read, i, acc) ==
  IF i > Len(read) THEN acc
  ELSE LET d == DecodeLine(read[i]) IN
       IF d.skip THEN acc
       ELSE GroupFromAbort(read, i + 1,
              [order |-> IF d.row.date \in Range(acc.order)
                           THEN acc.order
                           ELSE Append(acc.order, d.row.date),
               rows |-> [acc.rows EXCEPT ![d.row.date] = Append(@, d.row)]])

RECURSIVE GroupFrom(_, _, _)
GroupFrom(read, i, acc) ==
  IF i > Len(read) THEN acc
  ELSE LET d == DecodeLine(read[i]) IN
       GroupFrom(read, i + 1,
         IF d.skip THEN acc
         ELSE [order |-> IF d.row.date \in Range(acc.order)
                           THEN acc.order
                           ELSE Append(acc.order, d.row.date),
               rows |-> [acc.rows EXCEPT ![d.row.date] = Append(@, d.row)]])

\* the dict days: keys in insertion order, and the rows of each key
GroupByDate(read) == GroupFrom(read, 1, NoDays)

\* no gate at all
JShouldRunAlways(cursor, last) == TRUE

\* the gate of dump_journal.py: exit(0) when cursor == last
JShouldRun(cursor, last) == cursor # last

\* every partition rewritten on every run
EligibleAlways(date, today, exists) == TRUE

\* only today's file written
EligibleTodayOnly(date, today, exists) == date = today

\* only missing files written, today's included
EligibleMissingOnly(date, today, exists) == ~exists

\* the write condition of the loop
Eligible(date, today, exists) == date = today \/ ~exists

JOutputExists == \E d \in Dates : files[d].exists

IdleRun == [pc |-> "idle", last |-> <<>>, cur |-> NoCur, days |-> NoDays,
            today |-> 1, idx |-> 1,
            probe |-> "none", outAtGate |-> FALSE,
            fetched |-> FALSE, fetchOk |-> FALSE, read |-> <<>>,
            written |-> {}, skipped |-> {}, overw |-> {}, skipMiss |-> {},
            stamped |-> FALSE, partial |-> FALSE]

\* what is remembered of the serialized runs so far (nothing is remembered
\* of overlapping runs, which have no previous run).  clean: the source has not
\* changed since the current run started; kept: nor has the user deleted an
\* output since then; pair: the previous run was "partial" and the source
\* has not changed since it started, or it ended normally ("success") and
\* neither the source changed nor an output was deleted since it started,
\* or neither ("none").  Flags that can no longer matter are reset.
NoHist == [pair |-> "none", clean |-> TRUE, kept |-> TRUE]

\* the flags when a run starts after a run that ended as rec
HistAtStart(pc, partial) ==
  IF mode = "overlap" THEN hist
  ELSE [pair |-> IF ~hist.clean THEN "none"
                 ELSE IF partial THEN "partial"
                 ELSE IF pc \in {"noop", "done"} /\ hist.kept THEN "success"
                 ELSE "none",
        clean |-> TRUE, kept |-> TRUE]

\* --------------------------------------------------- cargo: pure helpers
LockContents == 1..MaxLock
NoLock == [exists |-> FALSE, content |-> 0]
LockOf(c) == [exists |-> TRUE, content |-> c]

\* hashlib.md5(lock.read_bytes()).hexdigest(): a digest text without
\* white space, taken to be collision-free on the contents considered
DigestBase == 16
Md5Hex(c) == <<DigestBase + c>>

PkgA == [name |-> "a", version |-> "1.0", dependencies |-> <<"x", "y">>,
         targets |-> <<[kind |-> <<"lib">>]>>]
PkgB == [name |-> "b", version |-> "0.1", dependencies |-> <<>>,
         targets |-> <<>>]
PkgC == [name |-> "c", version |-> "2.0", dependencies |-> <<"a">>,
         targets |-> <<[kind |-> <<"bin", "cdylib">>], [kind |-> <<"lib">>]>>]
Pkgs == <<PkgA, PkgB, PkgC>>

\* the "packages" of the document cargo metadata prints for a lock file:
\* the lock contents differ in the packages they resolve
MetaOf(c) == [i \in 1..(c + 1) |-> Pkgs[((i - 1) % Len(Pkgs)) + 1]]

\* dict.get(key, default)
Get(d, key, default) == IF key \in DOMAIN d THEN d[key] ELSE default

\* the kind of the last target instead of the first
ProjectPkgLastTarget(pkg) ==
  LET targets == Get(pkg, "targets", <<>>) IN
  [name |-> Get(pkg, "name", ""),
   version |-> Get(pkg, "version", ""),
   deps |-> Len(Get(pkg, "dependencies", <<>>)),
   kind |-> IF targets # <<>>
              THEN Get(targets[Len(targets)], "kind", <<"">>)[1] ELSE ""]

\* lines 29-34: one row per package
ProjectPkg(pkg) ==
  LET targets == Get(pkg, "targets", <<>>) IN
  [name |-> Get(pkg, "name", ""),
   version |-> Get(pkg, "version", ""),
   deps |-> Len(Get(pkg, "dependencies", <<>>)),
   kind |-> IF targets # <<>>
              THEN Get(targets[1], "kind", <<"">>)[1] ELSE ""]

BuildRows(pkgs) == [i \in 1..Len(pkgs) |-> ProjectPkg(pkgs[i])]

\* the gate of dump_cargo.py: exit(0) when cur_hash == last_hash and
\* OUT.exists()
CShouldRun(cur_hash, last_hash, outExists) ==
  ~(cur_hash = last_hash /\ outExists)

IdleCargo == [pc |-> "idle", hasLock |-> FALSE, cur_hash |-> <<>>,
              last_hash |-> <<>>, outAtGate |-> FALSE, fetched |-> FALSE,
              fetchOk |-> FALSE, meta |-> <<>>, rows |-> <<>>,
              wrote |-> FALSE, stamped |-> FALSE]

\* ------------------------------------------------------------------ Init
Init ==
  /\ mode \in {"journal", "cargo"}
  /\ source = <<>>
  /\ nextId = 1
  /\ avail = "up"
  /\ clock = 1
  /\ files = [d \in Dates |-> NoFile]
  /\ jstamp = NoStamp
  /\ jr = [r \in Runs |-> IdleRun]
  /\ lock = NoLock
  /\ cavail = "up"
  /\ snapshot = NoFile
  /\ cstamp = NoStamp
  /\ cr = IdleCargo
  /\ hist = NoHist
  /\ faults = 0

\* --------------------------------------------------- journal: run steps
\* where a run stands: before the probe (line 16), before the full dump
\* (line 24), at an iteration of the write loop (line 50), after the loop
\* (line 59)
AtProbe(r) == jr[r].pc = "probe"
AtFetch(r) == jr[r].pc = "fetch"
AtWrite(r) == jr[r].pc = "write" /\ jr[r].idx <= Len(jr[r].days.order)
AtCommit(r) == jr[r].pc = "write" /\ jr[r].idx > Len(jr[r].days.order)

\* a killed or crashed run that wrote some but not all it had to write
Partial(rec) ==
  /\ rec.pc \in {"crashed", "killed"}
  /\ rec.written # {}
  /\ \E i \in rec.idx..Len(rec.days.order) :
        LET date == rec.days.order[i] IN
        date = rec.today \/ ~files[date].exists

\* the run record after a step.  A process that ended has no locals left:
\* what stays of it is what it was seen to do, and whether it was partial
\* (of overlapping runs, only how they ended)
JSet(r, nr) ==
  /\ jr' = [jr EXCEPT ![r] =
              IF nr.pc \notin Terminal THEN nr
              ELSE IF mode = "overlap" THEN [IdleRun EXCEPT !.pc = nr.pc]
              ELSE [nr EXCEPT !.partial = Partial(nr), !.read = <<>>,
                              !.days = NoDays, !.idx = 1]]
  /\ hist' = hist

\* lines 11-13: read the stamp.  Serialized invocations are alike and the
\* one in progress is run 1; of overlapping ones there are two, each
\* started once, whenever it likes
JStart(r) ==
  /\ mode \in JournalModes
  /\ IF mode = "journal"
       THEN /\ r = 1
            /\ \A q \in Runs : jr[q].pc \in {"idle"} \cup Terminal
       ELSE jr[r].pc = "idle"
  /\ jr' = [jr EXCEPT ![r] =
              [IdleRun EXCEPT !.pc = "probe", !.last = ReadStamp(jstamp)]]
  /\ hist' = HistAtStart(jr[r].pc, jr[r].partial)
  /\ UNCHANGED <<mode, source, nextId, avail, clock, files, jstamp>>
  /\ UNCHANGED cvars
  /\ UNCHANGED faults

\* lines 15-21: the cursor probe and the gate
JProbe(r) ==
  /\ mode \in JournalModes
  /\ AtProbe(r)
  /\ LET me == [jr[r] EXCEPT !.outAtGate = JOutputExists] IN
     IF avail = "missing"
       THEN JSet(r, [me EXCEPT !.pc = "crashed", !.probe = "raised"])
     ELSE IF avail = "down" \/ source = <<>>
       THEN JSet(r, [me EXCEPT !.pc = "fetch", !.probe = "empty",
                               !.cur = NoCur])
     ELSE LET e == source[Len(source)] IN
       IF e.shape = "bad"
         THEN JSet(r, [me EXCEPT !.pc = "crashed", !.probe = "raised"])
       ELSE IF JShouldRun(CursorOf(e), me.last)
         THEN JSet(r, [me EXCEPT !.pc = "fetch", !.probe = "cursor",
                                 !.cur = CurOf(CursorOf(e))])
       ELSE JSet(r, [me EXCEPT !.pc = "noop", !.probe = "cursor",
                               !.cur = CurOf(CursorOf(e))])
  /\ UNCHANGED <<mode, source, nextId, avail, clock, files, jstamp>>
  /\ UNCHANGED cvars
  /\ UNCHANGED faults

\* an empty dump makes the run probe again (a retry loop)
JFetchRetry(r) ==
  /\ mode \in JournalModes
  /\ AtFetch(r)
  /\ LET me == [jr[r] EXCEPT !.fetched = TRUE] IN
     IF avail = "missing"
       THEN JSet(r, [me EXCEPT !.pc = "crashed"])
     ELSE LET out == IF avail = "down" THEN <<>> ELSE source IN
       IF out = <<>>
         THEN JSet(r, [me EXCEPT !.pc = "probe"])
       ELSE JSet(r, [me EXCEPT !.pc = "write", !.fetchOk = (avail = "up"),
                               !.read = out, !.days = GroupByDate(out),
                               !.today = clock, !.idx = 1])
  /\ UNCHANGED <<mode, source, nextId, avail, clock, files, jstamp>>
  /\ UNCHANGED cvars
  /\ UNCHANGED faults

\* lines 23-49: the full dump, the grouping by date, and today
JFetch(r) ==
  /\ mode \in JournalModes
  /\ AtFetch(r)
  /\ LET me == [jr[r] EXCEPT !.fetched = TRUE] IN
     IF avail = "missing"
       THEN JSet(r, [me EXCEPT !.pc = "crashed"])
     ELSE LET out == IF avail = "down" THEN <<>> ELSE source IN
       JSet(r, [me EXCEPT !.pc = "write", !.fetchOk = (avail = "up"),
                          !.read = out, !.days = GroupByDate(out),
                          !.today = clock, !.idx = 1])
  /\ UNCHANGED <<mode, source, nextId, avail, clock, files, jstamp>>
  /\ UNCHANGED cvars
  /\ UNCHANGED faults

\* lines 50-57: one iteration of the write loop; st is the stamp file
\* after the iteration
JWriteWith(r, st) ==
  /\ mode \in JournalModes
  /\ AtWrite(r)
  /\ LET me == jr[r]
         date == me.days.order[me.idx]
     IN IF Eligible(date, me.today, files[date].exists)
          THEN /\ files' = [files EXCEPT ![date] = FileOf(me.days.rows[date])]
               /\ JSet(r, [me EXCEPT !.idx = @ + 1,
                             !.written = @ \cup {date},
                             !.overw = IF files[date].exists
                                         THEN @ \cup {date} ELSE @])
          ELSE /\ files' = files
               /\ JSet(r, [me EXCEPT !.idx = @ + 1,
                             !.skipped = @ \cup {date},
                             !.skipMiss = IF files[date].exists
                                            THEN @ ELSE @ \cup {date}])
  /\ jstamp' = st
  /\ UNCHANGED <<mode, source, nextId, avail, clock>>
  /\ UNCHANGED cvars
  /\ UNCHANGED faults

\* the cursor saved inside the loop instead of after it
JWriteStampInLoop(r) ==
  JWriteWith(r, IF jr[r].cur.some THEN StampOf(jr[r].cur.text) ELSE jstamp)

\* the loop body leaves the stamp alone
JWrite(r) == JWriteWith(r, jstamp)

\* a failing write that still saves the cursor (a finally clause)
JWriteFailSaves(r) ==
  /\ mode \in JournalModes
  /\ AtWrite(r)
  /\ LET me == jr[r]
         date == me.days.order[me.idx]
     IN /\ Eligible(date, me.today, files[date].exists)
        /\ JSet(r, [me EXCEPT !.pc = "crashed"])
  /\ jstamp' = IF jr[r].cur.some THEN StampOf(jr[r].cur.text) ELSE jstamp
  /\ UNCHANGED <<mode, source, nextId, avail, clock, files>>
  /\ UNCHANGED cvars
  /\ UNCHANGED faults

\* lines 53-56 raising (duckdb cannot persist the file): the script dies
JWriteFail(r) ==
  /\ mode = "journal"
  /\ AtWrite(r)
  /\ LET me == jr[r]
         date == me.days.order[me.idx]
     IN /\ Eligible(date, me.today, files[date].exists)
        /\ JSet(r, [me EXCEPT !.pc = "crashed"])
  /\ UNCHANGED <<mode, source, nextId, avail, clock, files, jstamp>>
  /\ UNCHANGED cvars
  /\ UNCHANGED faults

\* the cursor saved is probed again after the writes
JCommitReprobe(r) ==
  /\ mode \in JournalModes
  /\ AtCommit(r)
  /\ jstamp' = IF jr[r].cur.some /\ source # <<>>
                 THEN StampOf(CursorOf(source[Len(source)])) ELSE jstamp
  /\ JSet(r, [jr[r] EXCEPT !.pc = "done", !.stamped = jr[r].cur.some])
  /\ UNCHANGED <<mode, source, nextId, avail, clock, files>>
  /\ UNCHANGED cvars
  /\ UNCHANGED faults

\* the run ends without saving the cursor
JCommitNoSave(r) ==
  /\ mode \in JournalModes
  /\ AtCommit(r)
  /\ JSet(r, [jr[r] EXCEPT !.pc = "done"])
  /\ UNCHANGED <<mode, source, nextId, avail, clock, files, jstamp>>
  /\ UNCHANGED cvars
  /\ UNCHANGED faults

\* lines 59-61: save the cursor
JCommit(r) ==
  /\ mode \in JournalModes
  /\ AtCommit(r)
  /\ jstamp' = IF jr[r].cur.some THEN StampOf(jr[r].cur.text) ELSE jstamp
  /\ JSet(r, [jr[r] EXCEPT !.pc = "done", !.stamped = jr[r].cur.some])
  /\ UNCHANGED <<mode, source, nextId, avail, clock, files>>
  /\ UNCHANGED cvars
  /\ UNCHANGED faults

\* the process is killed between two steps
JKill(r) ==
  /\ mode = "journal"
  /\ jr[r].pc \in {"probe", "fetch", "write"}
  /\ JSet(r, [jr[r] EXCEPT !.pc = "killed"])
  /\ UNCHANGED <<mode, source, nextId, avail, clock, files, jstamp>>
  /\ UNCHANGED cvars
  /\ UNCHANGED faults

\* ------------------------------------------------ journal: environment
\* a change of the source is remembered
NoteSrc ==
  IF mode = "overlap" THEN hist
  ELSE [pair |-> "none", clean |-> FALSE, kept |-> FALSE]

\* a deletion by the user is remembered
NoteDel == [pair |-> IF hist.pair = "success" THEN "none" ELSE hist.pair,
            clean |-> hist.clean, kept |-> FALSE]

\* journald appends an entry stamped with the current date
JAppend(shape) ==
  /\ mode \in JournalModes
  /\ nextId <= MaxEntries
  /\ shape # "ok" => mode = "journal" /\ faults < MaxFaults
  /\ faults' = IF shape # "ok" THEN faults + 1 ELSE faults
  /\ source' = Append(source, [id |-> nextId, day |-> clock, shape |-> shape])
  /\ nextId' = nextId + 1
  /\ hist' = NoteSrc
  /\ UNCHANGED <<mode, avail, clock, files, jstamp, jr>>
  /\ UNCHANGED cvars

\* journald rotates the oldest entry away
JVacuum ==
  /\ mode \in JournalModes
  /\ source # <<>>
  /\ faults < MaxFaults
  /\ faults' = faults + 1
  /\ source' = Tail(source)
  /\ hist' = NoteSrc
  /\ UNCHANGED <<mode, nextId, avail, clock, files, jstamp, jr>>
  /\ UNCHANGED cvars

\* journalctl works, fails with empty output, or cannot be run
JSetAvail(a) ==
  /\ mode \in JournalModes
  /\ a # avail
  /\ faults < MaxFaults
  /\ faults' = faults + 1
  /\ avail' = a
  /\ hist' = NoteSrc
  /\ UNCHANGED <<mode, source, nextId, clock, files, jstamp, jr>>
  /\ UNCHANGED cvars

\* midnight
Tick ==
  /\ mode \in JournalModes
  /\ clock < MaxDay
  /\ clock' = clock + 1
  /\ UNCHANGED <<mode, source, nextId, avail, files, jstamp, jr, hist>>
  /\ UNCHANGED cvars
  /\ UNCHANGED faults

\* the user deletes a partition file
JDelete(d) ==
  /\ mode \in JournalModes
  /\ files[d].exists
  /\ faults < MaxFaults
  /\ faults' = faults + 1
  /\ files' = [files EXCEPT ![d] = NoFile]
  /\ hist' = NoteDel
  /\ UNCHANGED <<mode, source, nextId, avail, clock, jstamp, jr>>
  /\ UNCHANGED cvars

\* ----------------------------------------------------- cargo: run steps
CSet(nr) ==
  /\ cr' = nr
  /\ hist' = hist

\* lines 12-19: the lock file, its digest, the stamp and the gate
CStart ==
  /\ mode = "cargo"
  /\ cr.pc \in {"idle"} \cup Terminal
  /\ LET h == HistAtStart(cr.pc, FALSE)
     IN IF ~lock.exists
          THEN /\ cr' = [IdleCargo EXCEPT !.pc = "noop"]
               /\ hist' = h
        ELSE LET me == [IdleCargo EXCEPT !.hasLock = TRUE,
                                         !.cur_hash = Md5Hex(lock.content),
                                         !.last_hash = ReadStamp(cstamp),
                                         !.outAtGate = snapshot.exists]
             IN IF CShouldRun(me.cur_hash, me.last_hash, me.outAtGate)
                  THEN /\ cr' = [me EXCEPT !.pc = "fetch"]
                       /\ hist' = h
                  ELSE /\ cr' = [me EXCEPT !.pc = "noop"]
                       /\ hist' = h
  /\ UNCHANGED <<mode, lock, cavail, snapshot, cstamp, faults>>
  /\ UNCHANGED jvars

\* lines 21-34: cargo metadata, json.loads, the rows.  Without a lock file
\* cargo resolves afresh and writes one.
CFetch ==
  /\ mode = "cargo"
  /\ cr.pc = "fetch"
  /\ LET me == [cr EXCEPT !.fetched = TRUE] IN
     IF cavail # "up"
       THEN /\ CSet([me EXCEPT !.pc = "crashed"])
            /\ lock' = lock
     ELSE \E c \in LockContents :
            /\ lock.exists => c = lock.content
            /\ lock' = LockOf(c)
            /\ CSet([me EXCEPT !.pc = "write", !.fetchOk = TRUE,
                               !.meta = MetaOf(c),
                               !.rows = BuildRows(MetaOf(c))])
  /\ UNCHANGED <<mode, cavail, snapshot, cstamp, faults>>
  /\ UNCHANGED jvars

\* lines 36-42: the snapshot replaces the prior one
CWrite ==
  /\ mode = "cargo"
  /\ cr.pc = "write"
  /\ snapshot' = FileOf(cr.rows)
  /\ CSet([cr EXCEPT !.pc = "commit", !.wrote = TRUE])
  /\ UNCHANGED <<mode, lock, cavail, cstamp, faults>>
  /\ UNCHANGED jvars

\* lines 38-41 raising: the script dies
CWriteFail ==
  /\ mode = "cargo"
  /\ cr.pc = "write"
  /\ CSet([cr EXCEPT !.pc = "crashed"])
  /\ UNCHANGED <<mode, lock, cavail, snapshot, cstamp, faults>>
  /\ UNCHANGED jvars

\* line 43: STAMP.write_text(cur_hash)
CCommit ==
  /\ mode = "cargo"
  /\ cr.pc = "commit"
  /\ cstamp' = StampOf(cr.cur_hash)
  /\ CSet([cr EXCEPT !.pc = "done", !.stamped = TRUE])
  /\ UNCHANGED <<mode, lock, cavail, snapshot, faults>>
  /\ UNCHANGED jvars

\* the process is killed between two steps
CKill ==
  /\ mode = "cargo"
  /\ cr.pc \in {"fetch", "write", "commit"}
  /\ CSet([cr EXCEPT !.pc = "killed"])
  /\ UNCHANGED <<mode, lock, cavail, snapshot, cstamp, faults>>
  /\ UNCHANGED jvars

\* -------------------------------------------------- cargo: environment
\* Cargo.lock is created, edited or reverted to earlier contents
CEditLock(c) ==
  /\ mode = "cargo"
  /\ lock # LockOf(c)
  /\ lock' = LockOf(c)
  /\ hist' = NoteSrc
  /\ UNCHANGED <<mode, cavail, snapshot, cstamp, cr, faults>>
  /\ UNCHANGED jvars

CDeleteLock ==
  /\ mode = "cargo"
  /\ lock.exists
  /\ lock' = NoLock
  /\ hist' = NoteSrc
  /\ UNCHANGED <<mode, cavail, snapshot, cstamp, cr, faults>>
  /\ UNCHANGED jvars

\* cargo works, fails with empty output, or cannot be run
CSetAvail(a) ==
  /\ mode = "cargo"
  /\ a # cavail
  /\ faults < MaxFaults
  /\ faults' = faults + 1
  /\ cavail' = a
  /\ hist' = NoteSrc
  /\ UNCHANGED <<mode, lock, snapshot, cstamp, cr>>
  /\ UNCHANGED jvars

\* the user deletes the snapshot
CDelete ==
  /\ mode = "cargo"
  /\ snapshot.exists
  /\ faults < MaxFaults
  /\ faults' = faults + 1
  /\ snapshot' = NoFile
  /\ hist' = NoteDel
  /\ UNCHANGED <<mode, lock, cavail, cstamp, cr>>
  /\ UNCHANGED jvars

Next ==
  \/ \E r \in Runs : JStart(r)
  \/ \E r \in Runs : JProbe(r)
  \/ \E r \in Runs : JFetch(r)
  \/ \E r \in Runs : JWrite(r)
  \/ \E r \in Runs : JWriteFail(r)
  \/ \E r \in Runs : JCommit(r)
  \/ \E r \in Runs : JKill(r)
  \/ \E s \in Shapes : JAppend(s)
  \/ JVacuum
  \/ \E a \in Avail : JSetAvail(a)
  \/ Tick
  \/ \E d \in Dates : JDelete(d)
  \/ CStart
  \/ CFetch
  \/ CWrite
  \/ CWriteFail
  \/ CCommit
  \/ CKill
  \/ \E c \in LockContents : CEditLock(c)
  \/ CDeleteLock
  \/ \E a \in Avail : CSetAvail(a)
  \/ CDelete

Spec == Init /\ [][Next]_vars

\* the start with invocations either serialized or free to overlap
InitOverlap ==
  /\ mode \in JournalModes
  /\ source = <<>>
  /\ nextId = 1
  /\ avail = "up"
  /\ clock = 1
  /\ files = [d \in Dates |-> NoFile]
  /\ jstamp = NoStamp
  /\ jr = [r \in Runs |-> IdleRun]
  /\ lock = NoLock
  /\ cavail = "up"
  /\ snapshot = NoFile
  /\ cstamp = NoStamp
  /\ cr = IdleCargo
  /\ hist = NoHist
  /\ faults = 0

\* the journal only grows, journalctl works and the user deletes no
\* partition file; runs may still fail or be killed, and days go by
NextAppendOnly ==
  \/ \E r \in Runs : JStart(r)
  \/ \E r \in Runs : JProbe(r)
  \/ \E r \in Runs : JFetch(r)
  \/ \E r \in Runs : JWrite(r)
  \/ \E r \in Runs : JWriteFail(r)
  \/ \E r \in Runs : JCommit(r)
  \/ \E r \in Runs : JKill(r)
  \/ \E s \in Shapes : JAppend(s)
  \/ Tick

\* the same for invocations that are serialized or free to overlap
OverlapSpec == InitOverlap /\ [][NextAppendOnly]_vars

\* serialized runs of either exporter in that environment
NextSerial ==
  \/ NextAppendOnly
  \/ CStart
  \/ CFetch
  \/ CWrite
  \/ CWriteFail
  \/ CCommit
  \/ CKill
  \/ \E c \in LockContents : CEditLock(c)
  \/ CDeleteLock
  \/ \E a \in Avail : CSetAvail(a)
  \/ CDelete

AppendOnlySpec == Init /\ [][NextSerial]_vars


\* ------------------------------------------------------------ properties
\* the rows of the well-formed entries of a read that carry the key K
WellFormedRows(read, K) ==
  LET Test(e) == e.shape = "ok" /\ e.day = K
      sel == SelectSeq(read, Test)
  IN [i \in 1..Len(sel) |-> [id |-> sel[i].id, date |-> K]]

\* the dates under which the entries of a read are filed
DatesOf(read) ==
  {IF read[i].shape = "nots" THEN EpochDay ELSE read[i].day :
     i \in {j \in 1..Len(read) : read[j].shape # "bad"}}

Failed == {"crashed", "killed"}

\* C1: in either exporter the stamp is written only by the step that ends
\* the run, after every partition or snapshot write of the run was done; a
\* run that fails or is killed leaves the stamp as it read it at its start
\* and leaves the files on disk as they are.
C1_StampLast ==
  [][ /\ jstamp' # jstamp =>
           \E r \in Runs :
             /\ jr[r].pc = "write"
             /\ jr[r].idx > Len(jr[r].days.order)
             /\ jr[r].written \cup jr[r].skipped = Range(jr[r].days.order)
             /\ jr'[r].pc = "done"
      /\ \A r \in Runs :
           /\ (jr'[r].pc \in Failed /\ jr[r].pc \notin Failed) =>
                jstamp' = jstamp /\ files' = files
           /\ jr'[r].pc \in {"probe", "fetch", "write"} \cup Failed =>
                ReadStamp(jstamp') = jr'[r].last
      /\ cstamp' # cstamp =>
           cr.pc = "commit" /\ cr.wrote /\ cr'.pc = "done"
      /\ (cr'.pc \in Failed /\ cr.pc \notin Failed) =>
           cstamp' = cstamp /\ snapshot' = snapshot
      /\ cr'.pc \in {"fetch", "write", "commit"} \cup Failed =>
           ReadStamp(cstamp') = cr'.last_hash
    ]_vars

\* a journal run died after writing a partition: the file is on disk and
\* the stamp is still the one read at the start, not the probed cursor
C1_Witness ==
  \E r \in Runs :
    /\ mode \in JournalModes
    /\ jr[r].pc \in Failed
    /\ jr[r].written # {}
    /\ \A d \in jr[r].written : files[d].exists
    /\ jr[r].cur.some
    /\ ReadStamp(jstamp) = jr[r].last
    /\ jr[r].cur.text # jr[r].last

\* the run that follows a partial run, the source (entries and journalctl)
\* being the same since the partial run started
C2Pre(r) ==
  /\ mode \in JournalModes
  /\ hist.pair = "partial"
  /\ jr[r].pc # "idle"

\* C2: the run after a partial journal run, on the same source, finds the
\* cursor changed, redoes the full read, plans every date of the source,
\* skips exactly the closed partitions that are on disk, writes the others,
\* and commits the newest cursor only when all of them are dealt with.
C2_Recovery ==
  \A r \in Runs : C2Pre(r) =>
    LET me == jr[r] IN
    /\ me.pc # "noop"
    /\ me.probe \in {"none", "cursor"}
    /\ me.probe = "cursor" => me.cur.text # me.last
    /\ me.fetched => me.fetchOk
    /\ me.pc = "write" =>
         /\ me.read = source
         /\ Range(me.days.order) = DatesOf(source)
    /\ me.overw \subseteq {me.today}
    /\ me.skipMiss = {}
    /\ me.pc = "done" =>
         /\ me.written \cup me.skipped = DatesOf(source)
         /\ me.stamped
         /\ jstamp = StampOf(CursorOf(source[Len(source)]))

\* the recovery of "2 of 3": two partitions found on disk and skipped, the
\* missing one written, then the commit
C2_Witness ==
  \E r \in Runs :
    /\ C2Pre(r)
    /\ jr[r].pc = "done"
    /\ Cardinality(jr[r].skipped) = 2
    /\ Cardinality(jr[r].written) = 1
    /\ jr[r].stamped

\* C3: both exporters pass the gate exactly when the fingerprint differs
\* from the stamp or the output does not exist.
C3_ShouldRunBoth ==
  /\ \A r \in Runs :
       jr[r].probe = "cursor" =>
         (jr[r].pc # "noop" <=>
            (jr[r].cur.text # jr[r].last \/ ~jr[r].outAtGate))
  /\ (cr.pc # "idle" /\ cr.hasLock) =>
         (cr.pc # "noop" <=>
            (cr.cur_hash # cr.last_hash \/ ~cr.outAtGate))

\* C4: a run whose fingerprint equals the stamp while the output exists
\* ends in NO_OP: no full fetch, no file written, no stamp written.
C4_Gating ==
  /\ \A r \in Runs :
       (jr[r].probe = "cursor" /\ jr[r].cur.text = jr[r].last
          /\ jr[r].outAtGate) =>
         /\ jr[r].pc = "noop"
         /\ ~jr[r].fetched
         /\ jr[r].written = {}
         /\ ~jr[r].stamped
         /\ ReadStamp(jstamp) = jr[r].last
  /\ (cr.pc # "idle" /\ cr.hasLock /\ cr.cur_hash = cr.last_hash
        /\ cr.outAtGate) =>
         /\ cr.pc = "noop"
         /\ ~cr.fetched
         /\ ~cr.wrote
         /\ ~cr.stamped
         /\ ReadStamp(cstamp) = cr.last_hash

C4_Witness ==
  \E r \in Runs :
    /\ mode \in JournalModes
    /\ jr[r].pc = "noop"
    /\ jr[r].outAtGate
    /\ jr[r].cur.text = jr[r].last
    /\ source # <<>>

\* C5: a partition file that exists and whose date is not the today of a
\* run in its write loop is never written by a run: it keeps its content
\* until the user deletes it.
C5_ClosedImmutable ==
  [][\A d \in Dates :
       (files[d].exists
          /\ \A r \in Runs : ~(jr[r].pc = "write" /\ jr[r].today = d)) =>
         \/ files'[d] = files[d]
         \/ files'[d] = NoFile /\ jr' = jr
    ]_vars

\* a run at the end of its loop has skipped a closed partition although
\* its read held other rows for that date than the file
C5_Witness ==
  \E r \in Runs : \E d \in Dates :
    /\ jr[r].pc = "write"
    /\ jr[r].idx > Len(jr[r].days.order)
    /\ d \in jr[r].skipped
    /\ d # jr[r].today
    /\ files[d].exists
    /\ files[d].rows # jr[r].days.rows[d]

\* C6: every iteration of the write loop that reaches today's date replaces
\* today's file by the well-formed entries of today in the run's full read,
\* and a run that ends normally with such entries has written that file.
C6_OpenFresh ==
  [][\A r \in Runs :
       /\ (jr[r].pc = "write" /\ jr'[r].pc = "write"
             /\ jr'[r].idx = jr[r].idx + 1
             /\ jr[r].days.order[jr[r].idx] = jr[r].today) =>
            /\ files'[jr[r].today] =
                 FileOf(WellFormedRows(jr[r].read, jr[r].today))
            /\ jr[r].today \in jr'[r].written
       /\ (jr[r].pc = "write" /\ jr'[r].pc = "done"
             /\ WellFormedRows(jr[r].read, jr[r].today) # <<>>) =>
            jr[r].today \in jr'[r].written
    ]_vars

\* today's file existed, was rewritten and holds three entries
C6_Witness ==
  \E r \in Runs : \E d \in Days :
    /\ jr[r].pc = "done"
    /\ d = jr[r].today
    /\ d \in jr[r].overw
    /\ files[d].exists
    /\ Len(files[d].rows) >= 3

\* the previous run ended normally, and neither the source changed nor
\* the user deleted an output since it started
C7Pre == hist.pair = "success"

\* C7: after a run that ended normally, with the source unchanged and the
\* output untouched, the next run writes no partition, no snapshot and no
\* stamp.
C7_Idempotent ==
  C7Pre =>
    /\ \A r \in Runs : jr[r].written = {} /\ ~jr[r].stamped
    /\ ~cr.wrote
    /\ ~cr.stamped

C7_Witness ==
  \E r \in Runs :
    /\ mode \in JournalModes
    /\ C7Pre
    /\ jr[r].pc = "noop"
    /\ jstamp.exists
    /\ \A d \in DatesOf(source) : files[d].exists

\* C8: a run whose full read failed writes no file, commits no stamp and
\* does not end normally.
C8_FetchFailedFatal ==
  /\ \A r \in Runs :
       (jr[r].fetched /\ ~jr[r].fetchOk) =>
         /\ jr[r].pc # "done"
         /\ jr[r].written = {}
         /\ ~jr[r].stamped
  /\ (cr.fetched /\ ~cr.fetchOk) =>
         /\ cr.pc # "done"
         /\ ~cr.wrote
         /\ ~cr.stamped

\* C9: a run that cannot obtain its fingerprint stops as a no-op: no full
\* fetch, no file written, no stamp written.
C9_SourceUnavailableNoOp ==
  /\ \A r \in Runs :
       jr[r].probe = "empty" =>
         /\ jr[r].pc = "noop"
         /\ ~jr[r].fetched
         /\ jr[r].written = {}
         /\ ~jr[r].stamped
  /\ (cr.pc # "idle" /\ ~cr.hasLock) =>
         /\ cr.pc = "noop"
         /\ ~cr.fetched
         /\ ~cr.wrote
         /\ ~cr.stamped

\* C10: a full read that succeeds always reaches the write loop, whatever
\* malformed lines it holds, and for every key the partition planned and
\* the file written hold exactly the well-formed entries of that key, in
\* the order read.
C10_FaultIsolation ==
  [][\A r \in Runs :
       /\ (jr[r].pc = "fetch" /\ avail = "up" /\ jr'[r] # jr[r]
             /\ jr'[r].pc # "killed") =>
            /\ jr'[r].pc = "write"
            /\ \A K \in Days :
                 jr'[r].days.rows[K] = WellFormedRows(source, K)
       /\ \A K \in Days :
            (jr[r].pc = "write" /\ K \in jr'[r].written \ jr[r].written) =>
              files'[K] = FileOf(WellFormedRows(jr[r].read, K))
    ]_vars

\* a batch of two well-formed entries around a malformed one, all of one
\* key, gave a file of two rows
C10_Witness ==
  \E r \in Runs : \E K \in Days :
    /\ jr[r].pc = "write"
    /\ jr[r].idx > Len(jr[r].days.order)
    /\ Len(jr[r].read) = 3
    /\ \A i \in 1..3 : jr[r].read[i].day = K
    /\ jr[r].read[1].shape = "ok"
    /\ jr[r].read[2].shape = "bad"
    /\ jr[r].read[3].shape = "ok"
    /\ K \in jr[r].written
    /\ files[K].exists
    /\ Len(files[K].rows) = 2

Active == {"probe", "fetch", "write"}
CActive == {"fetch", "write", "commit"}

\* the steps of one run of dump_journal.py, in the order of the state
\* machine: START enters FINGERPRINT_CHECK (probe); the gate leads to NO_OP
\* or FETCH; FETCH, DECODE and PLAN are one step that leads to WRITE; each
\* iteration of WRITE moves to the next partition; COMMIT_STAMP follows the
\* last iteration and leads to END; a failure or a kill aborts the run in
\* the state it is in
JOrder(r) ==
  \/ jr'[r] = jr[r]
  \/ jr[r].pc \in {"idle"} \cup Terminal /\ jr'[r].pc = "probe"
  \/ jr[r].pc = "probe" /\ jr'[r].pc \in {"noop", "fetch"} \cup Failed
  \/ jr[r].pc = "fetch" /\ jr'[r].pc \in {"write"} \cup Failed
  \/ /\ jr[r].pc = "write"
     /\ \/ jr'[r].pc = "write" /\ jr'[r].idx = jr[r].idx + 1
        \/ jr'[r].pc = "done" /\ jr[r].idx > Len(jr[r].days.order)
        \/ jr'[r].pc \in Failed

\* the same for dump_cargo.py, whose first step is START and the gate
COrder ==
  \/ cr' = cr
  \/ cr.pc \in {"idle"} \cup Terminal /\ cr'.pc \in {"noop", "fetch"}
  \/ cr.pc = "fetch" /\ cr'.pc \in {"write"} \cup Failed
  \/ cr.pc = "write" /\ cr'.pc \in {"commit"} \cup Failed
  \/ cr.pc = "commit" /\ cr'.pc \in {"done"} \cup Failed

\* C12: every run of either exporter goes START, FINGERPRINT_CHECK, then
\* NO_OP, or FETCH (with DECODE and PLAN), the WRITE iterations and
\* COMMIT_STAMP, then END; it moves forward only, enters no state twice and
\* ends by itself in NO_OP or END only (a failure or a kill stops it where
\* it is); the stamp is committed only by a run that went through its own
\* FETCH and all its WRITE iterations; and every run ends: a run that has
\* not ended always stands at a statement it can execute, and the steps
\* left to it are bounded by the partitions still to visit.
C12_StateMachine ==
  /\ [][ /\ \A r \in Runs : JOrder(r)
         /\ COrder
         /\ jstamp' # jstamp =>
              \E r \in Runs : /\ jr[r].pc = "write"
                              /\ jr[r].fetched
                              /\ jr[r].idx > Len(jr[r].days.order)
                              /\ jr'[r].pc = "done"
         /\ cstamp' # cstamp =>
              cr.pc = "commit" /\ cr.fetched /\ cr.wrote /\ cr'.pc = "done"
       ]_vars
  /\ [](\A r \in Runs :
          /\ jr[r].pc \in Active =>
               AtProbe(r) \/ AtFetch(r) \/ AtWrite(r) \/ AtCommit(r)
          /\ jr[r].pc = "write" =>
               /\ jr[r].idx \in 1..(Len(jr[r].days.order) + 1)
               /\ Len(jr[r].days.order) <= Cardinality(Dates))

\* a run that went through every state: the gate, the full read, two
\* partitions written, the stamp committed, the end
C12_Witness ==
  \E r \in Runs :
    /\ jr[r].pc = "done"
    /\ jr[r].probe = "cursor"
    /\ jr[r].fetchOk
    /\ Cardinality(jr[r].written) = 2
    /\ jr[r].stamped
    /\ jstamp = StampOf(jr[r].cur.text)


\* C11: no row on disk and no row planned belongs to a malformed entry of
\* the journal: an entry that cannot be decoded, or a JSON entry without
\* the timestamp field, is skipped and filed under no date.
C11_MalformedNoRecord ==
  /\ \A d \in Dates : \A k \in 1..Len(files[d].rows) :
       \A i \in 1..Len(source) :
         source[i].id = files[d].rows[k].id => source[i].shape = "ok"
  /\ \A r \in Runs : \A d \in Dates : \A k \in 1..Len(jr[r].days.rows[d]) :
       \A i \in 1..Len(jr[r].read) :
         jr[r].read[i].id = jr[r].days.rows[d][k].id =>
           jr[r].read[i].shape = "ok"

\* the row the snapshot is to hold for a package
ExpectedRow(pkg) ==
  [name |-> pkg.name, version |-> pkg.version,
   deps |-> Cardinality(DOMAIN pkg.dependencies),
   kind |-> IF Len(pkg.targets) = 0 THEN "" ELSE pkg.targets[1].kind[1]]

\* C13: the rows a run of the dependency exporter builds, and the snapshot
\* it writes, hold for every package of the fetched document, in order,
\* exactly one row: its name, its version, the number of its dependencies
\* and the first kind of its first target (the empty string without
\* targets), and nothing else.
C13_SnapshotFidelity ==
  /\ cr.fetchOk =>
       /\ Len(cr.rows) = Len(cr.meta)
       /\ \A i \in 1..Len(cr.meta) : cr.rows[i] = ExpectedRow(cr.meta[i])
  /\ (cr.wrote /\ snapshot.exists) =>
       /\ Len(snapshot.rows) = Len(cr.meta)
       /\ \A i \in 1..Len(cr.meta) : snapshot.rows[i] = ExpectedRow(cr.meta[i])

\* the snapshot of three packages: (a, 1.0, 2, lib), one without targets,
\* one with two targets whose first has two kinds
C13_Witness ==
  /\ cr.pc = "done"
  /\ cr.wrote
  /\ snapshot.exists
  /\ Len(snapshot.rows) = 3
  /\ snapshot.rows[1] =
       [name |-> "a", version |-> "1.0", deps |-> 2, kind |-> "lib"]
  /\ snapshot.rows[2].kind = ""
  /\ snapshot.rows[3] =
       [name |-> "c", version |-> "2.0", deps |-> 1, kind |-> "bin"]

\* the snapshot that dump_cargo.py makes of the lock file whose digest is h
SnapshotFor(h) ==
  {FileOf(BuildRows(MetaOf(c))) : c \in {x \in LockContents : Md5Hex(x) = h}}

\* C15: whenever a run of the dependency exporter ends in NO_OP because the
\* digest of the lock file equals the stamp and the snapshot exists, the
\* snapshot on disk is the one made from a lock file of that digest.
C15_RollbackConsistent ==
  [][(cr' # cr /\ cr'.pc = "noop" /\ cr'.hasLock) =>
       snapshot \in SnapshotFor(cr'.cur_hash)
    ]_vars

\* C14: the stamp a run commits is the fingerprint it obtained at its
\* start, kept unchanged through the full fetch and the writes.  For the
\* journal over a source that only grows: every entry up to the one whose
\* cursor is committed was in the full read of the committing run, so the
\* entries no full read has seen are all newer than the stamp; and a gate
\* ends in NO_OP only when the stamp is the cursor of the newest entry, so
\* an entry appended after the probe makes the next gate find a change.
C14_StampIsProbed ==
  [][ /\ \A r \in Runs :
           /\ jr[r].pc \in {"fetch", "write"} => jr'[r].cur = jr[r].cur
           /\ (jr[r].pc = "probe" /\ jr'[r].pc = "noop") =>
                /\ source # <<>>
                /\ jr[r].last = CursorOf(source[Len(source)])
      /\ jstamp' # jstamp =>
           \E r \in Runs :
             /\ jr[r].pc = "write" /\ jr'[r].pc = "done"
             /\ jr[r].cur.some
             /\ jstamp' = StampOf(jr[r].cur.text)
             /\ \A i \in 1..Len(source) :
                  CursorOf(source[i]) = jr[r].cur.text =>
                    \A j \in 1..i : source[j] \in Range(jr[r].read)
      /\ cr.pc \in CActive => cr'.cur_hash = cr.cur_hash
      /\ cstamp' # cstamp =>
           cr.pc = "commit" /\ cstamp' = StampOf(cr.cur_hash)
    ]_vars

\* a run has committed the cursor it probed although the journal has since
\* gained an entry, which its full read saw and wrote: the stamp is not the
\* newest cursor
C14_Witness ==
  \E r \in Runs :
    /\ mode = "journal"
    /\ jr[r].pc = "done"
    /\ jr[r].stamped
    /\ jstamp = StampOf(jr[r].cur.text)
    /\ Len(source) = 2
    /\ jr[r].cur.text = CursorOf(source[1])
    /\ \E d \in jr[r].written : Len(files[d].rows) = 2

\* the stamp is the cursor of the newest entry of the journal
StampIsNewest ==
  /\ source # <<>>
  /\ jstamp.exists
  /\ ReadStamp(jstamp) = CursorOf(source[Len(source)])

\* C16: serialized runs of the journal exporter over a journal that only
\* grows, some of them killed or failing: whenever no run is in progress
\* and the stamp is the newest cursor, today's file, if the journal has
\* entries of today, exists and holds exactly those entries.
C16_TodayComplete ==
  (/\ mode = "journal"
   /\ \A r \in Runs : jr[r].pc \notin Active
   /\ StampIsNewest
   /\ WellFormedRows(source, clock) # <<>>) =>
     files[clock] = FileOf(WellFormedRows(source, clock))

\* after midnight and a killed run, the stamp is the newest cursor and
\* today's file holds the two entries of today
C16_Witness ==
  \E r \in Runs :
    /\ mode = "journal"
    /\ jr[r].pc = "killed"
    /\ StampIsNewest
    /\ clock = 2
    /\ files[1].exists
    /\ Len(WellFormedRows(source, clock)) = 2
    /\ files[clock] = FileOf(WellFormedRows(source, clock))

\* s is an initial part of t
IsPrefix(s, t) == Len(s) <= Len(t) /\ s = SubSeq(t, 1, Len(s))

\* C17 as stated: when a run commits the stamp, the file of every date of
\* its full read exists and holds every entry of that date in the read.
C17_HistoryComplete ==
  [][\A r \in Runs :
       (jr[r].pc = "write" /\ jr'[r].pc = "done" /\ jr'[r].stamped) =>
         \A D \in Range(jr[r].days.order) :
           /\ files[D].exists
           /\ \A k \in 1..Len(jr[r].days.rows[D]) :
                \E m \in 1..Len(files[D].rows) :
                  files[D].rows[m] = jr[r].days.rows[D][k]
    ]_vars

\* C17 amended: when a run commits the stamp, the file of every date of its
\* full read exists; the file of the run's today, and every file the run
\* wrote, holds exactly the entries of that date in the read; the file of
\* another date that was on disk is left as the run that wrote it made it:
\* an initial part of the entries of that date in the read.
C17_HistoryAsWritten ==
  [][\A r \in Runs :
       (jr[r].pc = "write" /\ jr'[r].pc = "done" /\ jr'[r].stamped) =>
         \A D \in Range(jr[r].days.order) :
           /\ files[D].exists
           /\ (D = jr[r].today \/ D \in jr[r].written) =>
                files[D].rows = jr[r].days.rows[D]
           /\ IsPrefix(files[D].rows, jr[r].days.rows[D])
    ]_vars

\* a run about to commit has rewritten today's file in full and left the
\* file of yesterday, which lacks an entry that yesterday gained after the
\* file was written
C17_Witness ==
  \E r \in Runs : \E D \in Days :
    /\ mode = "journal"
    /\ AtCommit(r)
    /\ jr[r].cur.some
    /\ D < jr[r].today
    /\ D \in jr[r].skipped
    /\ Len(files[D].rows) < Len(jr[r].days.rows[D])
    /\ jr[r].today \in jr[r].written
    /\ files[jr[r].today].rows = jr[r].days.rows[jr[r].today]

\* every run has ended, the stamp is the newest cursor, and today's file
\* lacks an entry of today that the journal holds
StaleToday ==
  /\ \A r \in Runs : jr[r].pc \notin Active
  /\ StampIsNewest
  /\ \E i \in 1..Len(source) :
       /\ source[i].shape = "ok"
       /\ source[i].day = clock
       /\ \A k \in 1..Len(files[clock].rows) :
            files[clock].rows[k].id # source[i].id

\* C18: with serialized invocations no state is reached in which every run
\* has ended, the stamp is the newest cursor and today's file lacks an
\* entry of today; with two overlapping invocations such a state is reached
\* (the witness).
C18_SerializedSafe == mode = "journal" => ~StaleToday

\* two overlapping runs have both ended normally: the one with the older
\* read wrote today's file last, the one with the newer probe committed
\* last
C18_Witness ==
  /\ mode = "overlap"
  /\ \A r \in Runs : jr[r].pc = "done"
  /\ StaleToday
  /\ files[clock].exists

====
